---- MODULE Spec2Model ----
(***************************************************************************)
(* Model of the RyderSerial protocol engine (src/src/ryder-serial/index.ts) *)
(* as a state machine: one action per entry point (API call, inbound        *)
(* delivery, timer fire, transport event).  Handlers are pure operators on  *)
(* an engine record so that a handler's nested calls (next, clear,          *)
(* serial_error, the re-feed recursion of serial_data) are part of the      *)
(* same step.                                                               *)
(***************************************************************************)
EXTENDS Integers, Sequences, FiniteSets, TLC

VARIABLES
  state,        \* this[state_symbol]
  train,        \* this.#train : sequence of entries
  lock,         \* this[lock_symbol].length
  watchdog,     \* the timeout held in this[watchdog_symbol] is pending
  reconnect,    \* the interval held in this[reconnect_symbol] is active
  timers,       \* how many timeouts of serial_watchdog and how many intervals
                \* of open are registered with the runtime and not cleared
  closing,      \* this.closing
  serial,       \* this.serial : "undefined", or the transport's condition
  close_events, \* 'close' events of transports that are still to be delivered
  error_events, \* 'error' events of transports that are still to be delivered
  reject_on_locked, \* this.options.reject_on_locked
  completions,  \* history: the id of every call of an entry's resolve / reject, in order
  settled,      \* the resolve / reject calls made by the last entry point, with their values
  written,      \* what the last entry point wrote to the transport: the id
                \* of the entry and the bytes
  emitted,      \* events emitted by the last entry point
  sent,         \* number of entries created by send so far
  thrown,       \* the exception that left the last entry point ("" : none)
  sequences,    \* per sequence() call with an async callback: "granted" (the
                \* lock promise resolved, callback not yet called), "running",
                \* "settled"
  input,        \* the data argument the caller passes to send
  codec,        \* the reply the device sends to one exchange: the payload it
                \* frames, the bytes of the frame, how many were delivered
  last          \* the last entry point that ran

vars == <<state, train, lock, watchdog, reconnect, timers, closing, serial, close_events,
          error_events, reject_on_locked, completions, settled, written, emitted,
          sent, thrown, sequences, input, codec, last>>

\* ---------------------------------------------------------------- bounds
MaxSends == 2
MaxQueueSends == 3
MaxData == 2
MaxBuf == 1
MaxLocks == 1
MaxPending == 1
MaxThrows == 1
MaxHeldLocks == 2
MaxLockSends == 2
MaxSequences == 2
MaxPayload == 2
MaxArray == 2
MaxInputSends == 2
MaxReplySends == 3
MaxByteSends == 2
MaxSplitSends == 2

\* ------------------------------------------------------------- constants
\* enum Status: TypeScript numbers the members from 0 in declaration order
RESPONSE_OK == 0
RESPONSE_SEND_INPUT == 1
RESPONSE_REJECTED == 2
RESPONSE_OUTPUT == 3
RESPONSE_OUTPUT_END == 4
RESPONSE_ESC_SEQUENCE == 5
RESPONSE_WAIT_USER_CONFIRM == 6
RESPONSE_LOCKED == 7

\* const enum State
IDLE == 0
SENDING == 1
READING == 2

\* keys of response_errors
ErrorCodes == 246..255

response_errors(b) ==
  CASE b = 255 -> "RESPONSE_ERROR_UNKNOWN_COMMAND"
    [] b = 254 -> "RESPONSE_ERROR_NOT_INITIALIZED"
    [] b = 253 -> "RESPONSE_ERROR_MEMORY_ERROR"
    [] b = 252 -> "RESPONSE_ERROR_APP_DOMAIN_TOO_LONG"
    [] b = 251 -> "RESPONSE_ERROR_APP_DOMAIN_INVALID"
    [] b = 250 -> "RESPONSE_ERROR_MNEMONIC_TOO_LONG"
    [] b = 249 -> "RESPONSE_ERROR_MNEMONIC_INVALID"
    [] b = 248 -> "RESPONSE_ERROR_GENERATE_MNEMONIC"
    [] b = 247 -> "RESPONSE_ERROR_INPUT_TIMEOUT"
    [] b = 246 -> "RESPONSE_ERROR_NOT_IMPLEMENTED"

\* The bytes the modelled device sends: the status bytes the parser tells
\* apart and one error code.  OUTPUT_END and ESC_SEQUENCE as a first reply
\* byte are bytes outside the reply vocabulary; every byte but those two
\* is a literal inside a payload.
DeviceBytes ==
  {RESPONSE_OK, RESPONSE_OUTPUT, RESPONSE_OUTPUT_END, RESPONSE_ESC_SEQUENCE,
   RESPONSE_WAIT_USER_CONFIRM, RESPONSE_LOCKED, 254}

Deliveries == UNION {[1..n -> DeviceBytes] : n \in 1..MaxData}

\* ------------------------------------------------------- engine record
Engine ==
  [state |-> state, train |-> train, lock |-> lock, watchdog |-> watchdog,
   reconnect |-> reconnect, timers |-> timers, closing |-> closing,
   serial |-> serial,
   close_events |-> close_events, error_events |-> error_events,
   reject_on_locked |-> reject_on_locked, completions |-> completions,
   settled |-> <<>>, written |-> <<>>, emitted |-> <<>>, sent |-> sent,
   thrown |-> "", sequences |-> sequences]

Commit(e, entry) ==
  /\ state' = e.state
  /\ train' = e.train
  /\ lock' = e.lock
  /\ watchdog' = e.watchdog
  /\ reconnect' = e.reconnect
  /\ timers' = e.timers
  /\ closing' = e.closing
  /\ serial' = e.serial
  /\ close_events' = e.close_events
  /\ error_events' = e.error_events
  /\ reject_on_locked' = e.reject_on_locked
  /\ completions' = e.completions
  /\ settled' = e.settled
  /\ written' = e.written
  /\ emitted' = e.emitted
  /\ sent' = e.sent
  /\ thrown' = e.thrown
  /\ sequences' = e.sequences
  /\ last' = entry

\* the sinks of an entry: resolve(value) and reject(error)
resolve(e, id, status, data) ==
  [e EXCEPT !.completions = Append(@, id),
            !.settled = Append(@, [of |-> "send", id |-> id, kind |-> "resolve",
                                   status |-> status, data |-> data, error |-> ""])]

reject(e, id, error) ==
  [e EXCEPT !.completions = Append(@, id),
            !.settled = Append(@, [of |-> "send", id |-> id, kind |-> "reject",
                                   status |-> -1, data |-> <<>>, error |-> error])]

\* a promise that a call returns already settled: Promise.resolve(),
\* Promise.reject(error); it belongs to no entry of the train
settled_promise(e, of, kind, error) ==
  [e EXCEPT !.settled = Append(@, [of |-> of, id |-> 0, kind |-> kind,
                                   status |-> -1, data |-> <<>>, error |-> error])]

\* Promise.resolve called with a receiver that is no constructor (the bare
\* function taken from the lock list, or the list itself) throws a TypeError
throw(e, error) == [e EXCEPT !.thrown = error]

emit(e, event) == [e EXCEPT !.emitted = Append(@, event)]

\* clearTimeout and clearInterval cancel the timer whose handle the field
\* holds, if it is still registered; an assignment of setTimeout(...) or
\* setInterval(...) to the field registers a timer and forgets the handle the
\* field held, cancelled or not
clearTimeout(e) ==
  [e EXCEPT !.watchdog = FALSE,
            !.timers.timeouts = IF e.watchdog THEN @ - 1 ELSE @]
setTimeout(e) == [e EXCEPT !.watchdog = TRUE, !.timers.timeouts = @ + 1]
clearInterval(e) ==
  [e EXCEPT !.reconnect = FALSE,
            !.timers.intervals = IF e.reconnect THEN @ - 1 ELSE @]
setInterval(e) == [e EXCEPT !.reconnect = TRUE, !.timers.intervals = @ + 1]

\* the timeout whose handle the field holds has run out: it is registered no
\* longer
timeout(e) == [e EXCEPT !.watchdog = FALSE, !.timers.timeouts = @ - 1]

isOpen(e) == e.serial = "open"

\* -------------------------------------------------------------- Train
\* The sequencer class (./sequencer) is not among the sources; its
\* operations are modelled from their use and from the queue contract.
is_empty(t) == t = <<>>
peek_front(t) == Head(t)
pop_front(t) == Tail(t)
pop_tail(t) == SubSeq(t, 1, Len(t) - 1)
peek_tail(t) == t[Len(t)]
push_front(t, c) == <<c>> \o t
push_tail(t, c) == Append(t, c)

RECURSIVE reject_each(_, _, _)
reject_each(e, t, error) ==
  IF t = <<>> THEN e
  ELSE reject_each(reject(e, Head(t).id, error), Tail(t), error)

reject_all_remaining(e, error) ==
  [reject_each(e, e.train, error) EXCEPT !.train = <<>>]

\* -------------------------------------------------------------- clear
\* The loop that releases the locks calls this[lock_symbol][i](), which is
\* Promise.resolve with the list as receiver: with a lock in the list the call
\* throws and the list is not reset.
clear_releasing(e) ==
  LET e1 == clearTimeout(e)
      e2 == reject_all_remaining(e1, "ERROR_CLEARED")
  IN  [e2 EXCEPT !.state = IDLE, !.lock = 0]

clear(e) ==
  LET e1 == clearTimeout(e)
      e2 == reject_all_remaining(e1, "ERROR_CLEARED")
      e3 == [e2 EXCEPT !.state = IDLE]
  IN  IF e3.lock > 0 THEN throw(e3, "TypeError") ELSE [e3 EXCEPT !.lock = 0]

\* ------------------------------------------------------ payload bytes
\* A string is the sequence of its UTF-16 code units. Buffer.from(string)
\* encodes it as UTF-8: a code unit below 128 is one byte, one from 128 to
\* 2047 is two.
RECURSIVE Buffer_from(_)
Buffer_from(str) ==
  IF str = <<>> THEN <<>>
  ELSE LET c == Head(str)
       IN  (IF c < 128 THEN <<c>> ELSE <<192 + (c \div 64), 128 + (c % 64)>>)
           \o Buffer_from(Tail(str))

\* Array.prototype.join(""): the strings of the array, concatenated
RECURSIVE join(_)
join(strs) == IF strs = <<>> THEN <<>> ELSE Head(strs) \o join(Tail(strs))

\* String.fromCharCode(n): the string of the one code unit n
fromCharCode(n) == <<n % 65536>>

\* send's narrowing of its data argument to an array of strings
narrowed_data(data) ==
  CASE data.type = "string" -> <<data.value>>
    [] data.type = "number" -> <<fromCharCode(data.value)>>
    [] OTHER -> [i \in DOMAIN data.value |-> fromCharCode(data.value[i])]

\* ------------------------------------------------ next / serial_error
\* k is the number of serial.write calls that throw from here on.
RECURSIVE next(_, _)
serial_error(e, error, k) ==
  LET e1 == emit(e, "error")
      e2 == IF ~is_empty(e1.train)
            THEN reject([e1 EXCEPT !.train = pop_tail(@)], peek_tail(e1.train).id, error)
            ELSE e1
      e3 == [clearTimeout(e2) EXCEPT !.state = IDLE]
  IN  next(e3, k)

next(e, k) ==
  IF e.state = IDLE /\ ~is_empty(e.train)
  THEN IF ~isOpen(e)
       THEN LET head == peek_front(e.train)
                e1 == clear(e)
            IN  IF e1.thrown # "" THEN e1
                ELSE reject(e1, head.id, "ERROR_DISCONNECTED")
       ELSE LET e1 == [e EXCEPT !.state = SENDING]
            IN  IF k > 0
                THEN serial_error(e1, "ERROR_WRITE", k - 1)
                ELSE setTimeout(clearTimeout(
                       [e1 EXCEPT !.written =
                                    Append(@, [id |-> peek_front(e1.train).id,
                                               bytes |-> Buffer_from(
                                                 join(peek_front(e1.train).data))]),
                                  !.train[1].writes = @ + 1]))
  ELSE e

\* -------------------------------------------------------- serial_data
\* The READING loop over data[i..]: id is the entry whose resolve was taken
\* at the start of serial_data.
RECURSIVE read_loop(_, _, _, _, _)
read_loop(e, data, i, id, k) ==
  IF i > Len(data) THEN e
  ELSE LET b == data[i]
           front == peek_front(e.train)
       IN  IF ~front.is_prev_escaped_byte /\ b = RESPONSE_ESC_SEQUENCE
           THEN read_loop([e EXCEPT !.train[1].is_prev_escaped_byte = TRUE],
                          data, i + 1, id, k)
           ELSE IF ~front.is_prev_escaped_byte /\ b = RESPONSE_OUTPUT_END
           THEN LET e1 == [e EXCEPT !.train = pop_front(@)]
                    e2 == resolve(e1, id, RESPONSE_OK, front.output_buffer)
                IN  next([e2 EXCEPT !.state = IDLE], k)
           ELSE read_loop([e EXCEPT !.train[1].is_prev_escaped_byte = FALSE,
                                    !.train[1].output_buffer = Append(@, b)],
                          data, i + 1, id, k)

reading(e, data, offset, id, k) ==
  IF e.state = READING
  THEN read_loop(setTimeout(e), data, offset + 1, id, k)
  ELSE e

RECURSIVE serial_data(_, _, _)
sending(e, data, id, k) ==
  LET b == data[1]
      e0 == IF b = RESPONSE_LOCKED THEN emit(e, "locked") ELSE e
  IN  IF b = RESPONSE_LOCKED /\ e.reject_on_locked
      THEN emit([reject_all_remaining(e, "ERROR_LOCKED") EXCEPT !.state = IDLE],
                "locked")
      ELSE IF b \in {RESPONSE_OK, RESPONSE_SEND_INPUT, RESPONSE_REJECTED}
      THEN LET e1 == resolve([e0 EXCEPT !.train = pop_front(@)], id, b, <<>>)
           IN  IF Len(data) > 1
               THEN serial_data(e1, Tail(data), k)
               ELSE next([e1 EXCEPT !.state = IDLE], k)
      ELSE IF b = RESPONSE_OUTPUT
      THEN reading([e0 EXCEPT !.state = READING], data, 1, id, k)
      ELSE IF b = RESPONSE_WAIT_USER_CONFIRM
      THEN LET e1 == emit(e0, "wait_user_confirm")
           IN  IF Len(data) > 1 THEN serial_data(e1, Tail(data), k) ELSE e1
      ELSE LET error == IF b \in ErrorCodes THEN response_errors(b)
                        ELSE "ERROR_UNKNOWN_RESPONSE"
               e1 == reject(e0, id, error)
               e2 == [e1 EXCEPT !.train = pop_front(@), !.state = IDLE]
           IN  IF Len(data) > 1
               THEN serial_data(e2, Tail(data), k)
               ELSE next(e2, k)

serial_data_any_state(e, data, k) ==
  LET e1 == clearTimeout(e)
  IN  IF is_empty(e1.train) THEN e1
      ELSE LET id == peek_front(e1.train).id
           IN  IF e1.state # READING
               THEN sending(e1, data, id, k)
               ELSE reading(e1, data, 0, id, k)

serial_data(e, data, k) ==
  IF e.state = IDLE THEN e
  ELSE LET e1 == clearTimeout(e)
       IN  IF is_empty(e1.train) THEN e1
           ELSE LET id == peek_front(e1.train).id
                IN  IF e1.state = SENDING
                    THEN sending(e1, data, id, k)
                    ELSE reading(e1, data, 0, id, k)

\* ---------------------------------------------------- serial_watchdog
serial_watchdog(e, k) ==
  IF is_empty(e.train) THEN e
  ELSE LET front == peek_front(e.train)
           e1 == reject([e EXCEPT !.train = pop_front(@)], front.id, "ERROR_WATCHDOG")
       IN  next([e1 EXCEPT !.state = IDLE], k)

\* ------------------------------------------------------- open / close
\* serial.close() is asynchronous: an open port emits 'close' later, a port
\* that is not open emits 'error' ("Port is not open") later.
transport_close(e) ==
  IF e.serial = "open" THEN [e EXCEPT !.close_events = @ + 1]
  ELSE IF e.serial # "undefined" THEN [e EXCEPT !.error_events = @ + 1]
  ELSE e

close(e) ==
  IF e.closing THEN e
  ELSE LET e1 == clear([e EXCEPT !.closing = TRUE])
           e2 == transport_close(e1)
       IN  IF e1.thrown # "" THEN e1
           ELSE [clearInterval(e2) EXCEPT !.serial = "undefined"]

open(e) ==
  LET e1 == [e EXCEPT !.closing = FALSE]
  IN  IF isOpen(e1) THEN e1
      ELSE LET e2 == IF e1.serial # "undefined" THEN close(e1) ELSE e1
           IN  IF e2.thrown # "" THEN e2
               ELSE [e2 EXCEPT !.serial = "opening"]

\* handlers wired by open()
on_error_rearm(e) ==
  IF e.serial # "undefined" /\ ~isOpen(e)
  THEN emit(setInterval(e), "failed")
  ELSE e

on_error(e) ==
  IF e.serial # "undefined" /\ ~isOpen(e)
  THEN emit(setInterval(clearInterval(e)), "failed")
  ELSE e

on_close(e) ==
  LET e1 == clearInterval(emit(e, "close"))
  IN  IF ~e1.closing THEN setInterval(e1) ELSE e1

on_open(e, k) == next(emit(clearInterval(e), "open"), k)

\* ------------------------------------------------------ send and locks
send_unchecked(e, data, prepend, k) ==
  LET c == [id |-> e.sent + 1, data |-> narrowed_data(data),
            is_prev_escaped_byte |-> FALSE, output_buffer |-> <<>>, writes |-> 0]
  IN  next([e EXCEPT !.sent = @ + 1,
                     !.train = IF prepend THEN push_front(@, c) ELSE push_tail(@, c)], k)

send(e, data, prepend, k) ==
  LET c == [id |-> e.sent + 1, data |-> narrowed_data(data),
            is_prev_escaped_byte |-> FALSE, output_buffer |-> <<>>, writes |-> 0]
      e1 == [e EXCEPT !.sent = @ + 1,
                      !.train = IF prepend THEN push_front(@, c) ELSE push_tail(@, c)]
  IN  IF ~isOpen(e)
      THEN settled_promise(e, "send", "reject", "ERROR_DISCONNECTED")
      ELSE next(e1, k)

\* lock() pushes Promise.resolve on the list and returns Promise.resolve()
lock_(e) == settled_promise([e EXCEPT !.lock = @ + 1], "lock", "resolve", "")

\* unlock() shifts the list and calls the shifted function, Promise.resolve
\* without a receiver
unlock(e) ==
  IF e.lock > 0 THEN throw([e EXCEPT !.lock = @ - 1], "TypeError") ELSE e

locked(e) == e.lock > 0

sequence_unchecked(e, is_async) ==
  [lock_(e) EXCEPT !.sequences = Append(@, "granted")]

\* sequence(callback): is_async is callback.constructor.name = 'AsyncFunction'
sequence(e, is_async) ==
  IF ~is_async
  THEN settled_promise(e, "sequence", "reject", "ERROR_SEQUENCE_NOT_ASYNC")
  ELSE [lock_(e) EXCEPT !.sequences = Append(@, "granted")]

\* .then(callback): the callback of sequence i is called
sequence_then(e, i) == [e EXCEPT !.sequences[i] = "running"]

sequence_then_unlock(e, i, outcome) ==
  LET e1 == IF outcome = "resolve" THEN unlock(e) ELSE e
      e2 == [e1 EXCEPT !.thrown = "", !.sequences[i] = "settled"]
  IN  settled_promise(e2, "sequence", "reject",
                      IF e1.thrown # "" THEN e1.thrown ELSE "callback")

\* .finally(this.unlock.bind(this)): the callback's promise has settled with
\* outcome; what unlock throws rejects the promise sequence() returned
sequence_finally(e, i, outcome) ==
  LET e1 == unlock(e)
      e2 == [e1 EXCEPT !.thrown = "", !.sequences[i] = "settled"]
  IN  IF e1.thrown # "" THEN settled_promise(e2, "sequence", "reject", e1.thrown)
      ELSE settled_promise(e2, "sequence", outcome,
                           IF outcome = "reject" THEN "callback" ELSE "")

\* ------------------------------------------------------------ caller
\* the data of the sends whose payload is of no interest: one command byte
Command == [type |-> "number", value |-> 1]

\* the data arguments told apart: every byte as a number, and arrays and
\* Uint8Arrays of bytes on either side of 128
ArrayBytes == {0, 127, 128, 255}

Inputs ==
  {[type |-> "number", value |-> b] : b \in 0..255}
  \cup {[type |-> t, value |-> a] :
          t \in {"array", "Uint8Array"},
          a \in UNION {[1..n -> ArrayBytes] : n \in 0..MaxArray}}

\* the bytes a data argument stands for
Bytes(data) == IF data.type = "number" THEN <<data.value>> ELSE data.value

\* ------------------------------------------------------------ device
\* The status bytes as the device puts them on the wire.
WIRE_OK == 1
WIRE_SEND_INPUT == 2
WIRE_REJECTED == 3
WIRE_OUTPUT_BEGIN == 4
WIRE_OUTPUT_END == 5
WIRE_ESCAPE == 6
WIRE_WAIT_USER_CONFIRM == 10
WIRE_LOCKED == 11

WireStatus ==
  {WIRE_OK, WIRE_SEND_INPUT, WIRE_REJECTED, WIRE_OUTPUT_BEGIN, WIRE_OUTPUT_END,
   WIRE_ESCAPE, WIRE_WAIT_USER_CONFIRM, WIRE_LOCKED}

\* payload bytes: every byte that is a framing byte on the wire or in the
\* engine's Status, and an ordinary one
PayloadBytes ==
  {RESPONSE_OUTPUT, RESPONSE_OUTPUT_END, RESPONSE_ESC_SEQUENCE, WIRE_ESCAPE, 104}

Payloads == UNION {[1..n -> PayloadBytes] : n \in 0..MaxPayload}

\* the payload with esc before every byte equal to esc or end
RECURSIVE esc_encode(_, _, _)
esc_encode(P, esc, end) ==
  IF P = <<>> THEN <<>>
  ELSE (IF Head(P) \in {esc, end} THEN <<esc, Head(P)>> ELSE <<Head(P)>>)
       \o esc_encode(Tail(P), esc, end)

Frame(P, begin, esc, end) == <<begin>> \o esc_encode(P, esc, end) \o <<end>>

WireFrame(P) == Frame(P, WIRE_OUTPUT_BEGIN, WIRE_ESCAPE, WIRE_OUTPUT_END)

\* the frame of a device that numbers the framing bytes as Status does
StatusFrame(P) ==
  Frame(P, RESPONSE_OUTPUT, RESPONSE_ESC_SEQUENCE, RESPONSE_OUTPUT_END)

NoReply == [payload |-> <<>>, frame |-> <<>>, pos |-> 0]

Replies ==
  {[payload |-> P, frame |-> WireFrame(P), pos |-> 0] : P \in Payloads}
  \cup {[payload |-> P, frame |-> StatusFrame(P), pos |-> 0] : P \in Payloads}
  \cup {[payload |-> <<>>, frame |-> <<b>>, pos |-> 0] : b \in WireStatus}

\* ------------------------------------------------------------ actions
Bounded(e) ==
  /\ e.close_events <= MaxPending
  /\ e.error_events <= MaxPending
  /\ \A i \in 1..Len(e.train) : Len(e.train[i].output_buffer) <= MaxBuf
  /\ Len(e.sequences) <= MaxSequences

Init ==
  /\ state = IDLE
  /\ train = <<>>
  /\ lock = 0
  /\ watchdog = FALSE
  /\ reconnect = FALSE
  /\ timers = [timeouts |-> 0, intervals |-> 0]
  /\ closing = FALSE
  /\ serial = "opening"
  /\ close_events = 0
  /\ error_events = 0
  /\ reject_on_locked \in BOOLEAN
  /\ completions = <<>>
  /\ settled = <<>>
  /\ written = <<>>
  /\ emitted = <<>>
  /\ sent = 0
  /\ thrown = ""
  /\ sequences = <<>>
  /\ input = Command
  /\ codec = NoReply
  /\ last = "constructor"

Step(e, entry) == Bounded(e) /\ Commit(e, entry) /\ UNCHANGED <<input, codec>>

\* The 'error' of a close() on a port that is not open is emitted on the next
\* tick, and the callback of a sequence() is called in a microtask, before any
\* timer or transport event is handled; only calls made by the running code
\* can come before them.
TickDrained ==
  /\ error_events = 0
  /\ \A i \in DOMAIN sequences : sequences[i] # "granted"

SendWith(prepends, n) ==
  \E prepend \in prepends, k \in 0..MaxThrows :
    /\ isOpen(Engine)
    /\ sent < n
    /\ Step(send(Engine, input, prepend, k), IF prepend THEN "send:prepend" ELSE "send")

Send == SendWith(BOOLEAN, MaxSends)

SendDisconnected ==
  /\ ~isOpen(Engine)
  /\ Step(send(Engine, input, FALSE, 0), "send:ERROR_DISCONNECTED")

SerialData ==
  \E data \in Deliveries, k \in 0..MaxThrows :
    /\ TickDrained
    /\ isOpen(Engine)
    /\ Step(serial_data(Engine, data, k), "serial_data")

\* the device's replies arrive one byte at a time
ReplyByte ==
  \E b \in DeviceBytes, k \in 0..MaxThrows :
    /\ TickDrained
    /\ isOpen(Engine)
    /\ Step(serial_data(Engine, <<b>>, k), "serial_data")

WatchdogFire ==
  \E k \in 0..MaxThrows :
    /\ TickDrained
    /\ watchdog
    /\ Step(serial_watchdog(timeout(Engine), k), "serial_watchdog")

TransportOpened ==
  \E k \in 0..MaxThrows :
    /\ TickDrained
    /\ serial = "opening"
    /\ Step(on_open([Engine EXCEPT !.serial = "open"], k), "on_open")

TransportOpenFailed ==
  /\ TickDrained
  /\ serial = "opening"
  /\ Step(on_error([Engine EXCEPT !.serial = "closed"]), "on_error")

TransportError ==
  /\ error_events > 0
  /\ Step(on_error([Engine EXCEPT !.error_events = @ - 1]), "on_error")

LinkLost ==
  /\ TickDrained
  /\ serial = "open"
  /\ Step([Engine EXCEPT !.serial = "closed", !.close_events = @ + 1], "link_lost")

TransportClosed ==
  /\ TickDrained
  /\ close_events > 0
  /\ Step(on_close([Engine EXCEPT !.close_events = @ - 1]), "on_close")

ReconnectFire ==
  /\ TickDrained
  /\ reconnect
  /\ Step(open(Engine), "reconnect")

Open == Step(open(Engine), "open")

Close == Step(close(Engine), "close")

Clear == Step(clear(Engine), "clear")

LockWith(n) ==
  /\ lock < n
  /\ Step(lock_(Engine), "lock")

Lock == LockWith(MaxLocks)

Unlock == Step(unlock(Engine), "unlock")

Next ==
  \/ Send
  \/ SendDisconnected
  \/ SerialData
  \/ WatchdogFire
  \/ TransportOpened
  \/ TransportOpenFailed
  \/ TransportError
  \/ LinkLost
  \/ TransportClosed
  \/ ReconnectFire
  \/ Open
  \/ Close
  \/ Clear
  \/ Lock
  \/ Unlock

Spec == Init /\ [][Next]_vars

\* ------------------------------------------------- the queue in isolation
\* The engine on a transport that has opened and stays open: sends, inbound
\* deliveries, watchdog fires, write failures and clear().
InitQueue ==
  /\ state = IDLE
  /\ train = <<>>
  /\ lock = 0
  /\ watchdog = FALSE
  /\ reconnect = FALSE
  /\ timers = [timeouts |-> 0, intervals |-> 0]
  /\ closing = FALSE
  /\ serial = "open"
  /\ close_events = 0
  /\ error_events = 0
  /\ reject_on_locked \in BOOLEAN
  /\ completions = <<>>
  /\ settled = <<>>
  /\ written = <<>>
  /\ emitted = <<"open">>
  /\ sent = 0
  /\ thrown = ""
  /\ sequences = <<>>
  /\ input = Command
  /\ codec = NoReply
  /\ last = "on_open"

QueueSend == SendWith(BOOLEAN, MaxQueueSends)

NextQueue ==
  \/ QueueSend
  \/ SerialData
  \/ WatchdogFire
  \/ Clear

SpecQueue == InitQueue /\ [][NextQueue]_vars

\* as SpecQueue, with no prepend send
FifoSend == SendWith({FALSE}, MaxQueueSends)

NextFifo ==
  \/ FifoSend
  \/ SerialData
  \/ WatchdogFire

SpecFifo == InitQueue /\ [][NextFifo]_vars

\* every armed watchdog eventually fires
FairSpecFifo == SpecFifo /\ WF_vars(WatchdogFire)

\* ------------------------------------------- faults and reconnection
\* The engine with a caller that opens once, sends, and never calls open(),
\* close() or clear(): every loss of the transport is unintentional and every
\* open() after the first is the reconnect interval's.
\* the open transport emits 'error' (a failed read or write) and stays open
TransportFault ==
  /\ TickDrained
  /\ serial = "open"
  /\ Step(on_error(Engine), "on_error")

NextReconnect ==
  \/ Send
  \/ TransportFault
  \/ SendDisconnected
  \/ SerialData
  \/ WatchdogFire
  \/ TransportOpened
  \/ TransportOpenFailed
  \/ TransportError
  \/ LinkLost
  \/ TransportClosed
  \/ ReconnectFire

SpecReconnect == Init /\ [][NextReconnect]_vars

\* ------------------------------------------------- the data of a send
\* The engine on an open transport with a caller that sends one data
\* argument, again and again, while the device answers.
InitInput ==
  /\ state = IDLE
  /\ train = <<>>
  /\ lock = 0
  /\ watchdog = FALSE
  /\ reconnect = FALSE
  /\ timers = [timeouts |-> 0, intervals |-> 0]
  /\ closing = FALSE
  /\ serial = "open"
  /\ close_events = 0
  /\ error_events = 0
  /\ reject_on_locked \in BOOLEAN
  /\ completions = <<>>
  /\ settled = <<>>
  /\ written = <<>>
  /\ emitted = <<"open">>
  /\ sent = 0
  /\ thrown = ""
  /\ sequences = <<>>
  /\ input \in Inputs
  /\ codec = NoReply
  /\ last = "on_open"

InputSend == SendWith({FALSE}, MaxInputSends)

NextInput ==
  \/ InputSend
  \/ ReplyByte

SpecInput == InitInput /\ [][NextInput]_vars

\* ------------------------------------------------- one device reply
\* The engine on an open transport sends one exchange; the device answers
\* it with one reply, delivered in chunks of any size.
InitCodec ==
  /\ state = IDLE
  /\ train = <<>>
  /\ lock = 0
  /\ watchdog = FALSE
  /\ reconnect = FALSE
  /\ timers = [timeouts |-> 0, intervals |-> 0]
  /\ closing = FALSE
  /\ serial = "open"
  /\ close_events = 0
  /\ error_events = 0
  /\ reject_on_locked \in BOOLEAN
  /\ completions = <<>>
  /\ settled = <<>>
  /\ written = <<>>
  /\ emitted = <<"open">>
  /\ sent = 0
  /\ thrown = ""
  /\ sequences = <<>>
  /\ input = Command
  /\ codec \in Replies
  /\ last = "on_open"

CodecSend ==
  /\ sent = 0
  /\ Step(send(Engine, input, FALSE, 0), "send")

CodecDeliver ==
  \E n \in 1..(Len(codec.frame) - codec.pos) :
    /\ sent = 1
    /\ Commit(serial_data(Engine, SubSeq(codec.frame, codec.pos + 1, codec.pos + n), 0),
              "serial_data")
    /\ codec' = [codec EXCEPT !.pos = @ + n]
    /\ UNCHANGED input

NextCodec ==
  \/ CodecSend
  \/ CodecDeliver

SpecCodec == InitCodec /\ [][NextCodec]_vars

\* ------------------------------------------------- one reply, two exchanges
\* as SpecCodec, with a second exchange queued behind the one the device
\* answers
SplitSend ==
  /\ codec.pos = 0
  /\ sent < MaxSplitSends
  /\ Step(send(Engine, input, FALSE, 0), "send")

SplitDeliver ==
  \E n \in 1..(Len(codec.frame) - codec.pos) :
    /\ sent >= 1
    /\ Commit(serial_data(Engine, SubSeq(codec.frame, codec.pos + 1, codec.pos + n), 0),
              "serial_data")
    /\ codec' = [codec EXCEPT !.pos = @ + n]
    /\ UNCHANGED input

NextSplit ==
  \/ SplitSend
  \/ SplitDeliver

SpecSplit == InitCodec /\ [][NextSplit]_vars

\* ------------------------------------------------- replies on record
\* The engine on an open transport with exchanges queued behind each other;
\* the device numbers its status bytes as the wire does or as Status does,
\* and the delivery it made last is on record in codec.frame.
ReplyBytes == DeviceBytes \cup WireStatus

ReplyDeliveries == UNION {[1..n -> ReplyBytes] : n \in 1..MaxData}

ReplySend == SendWith({FALSE}, MaxReplySends)

Deliver ==
  \E data \in ReplyDeliveries, k \in 0..MaxThrows :
    /\ Bounded(serial_data(Engine, data, k))
    /\ Commit(serial_data(Engine, data, k), "serial_data")
    /\ codec' = [payload |-> <<>>, frame |-> data, pos |-> Len(data)]
    /\ UNCHANGED input

NextReply ==
  \/ ReplySend
  \/ Deliver
  \/ WatchdogFire

SpecReply == InitQueue /\ [][NextReply]_vars

\* ------------------------------------------------- first reply bytes
\* The engine on an open transport with exchanges queued behind each other;
\* the device answers the exchange in flight with any byte at all, one byte
\* to a delivery, and the byte is on record in codec.frame.
ByteSend == SendWith({FALSE}, MaxByteSends)

FirstReplyByte ==
  \E b \in 0..255, k \in 0..MaxThrows :
    /\ state = SENDING
    /\ Bounded(serial_data(Engine, <<b>>, k))
    /\ Commit(serial_data(Engine, <<b>>, k), "serial_data")
    /\ codec' = [payload |-> <<>>, frame |-> <<b>>, pos |-> 1]
    /\ UNCHANGED input

NextByte ==
  \/ ByteSend
  \/ FirstReplyByte
  \/ WatchdogFire

SpecByte == InitQueue /\ [][NextByte]_vars

\* ------------------------------------------------- locks and sequences
\* The engine on an open transport with callers that take locks, directly and
\* through sequence(), while exchanges are sent and answered.
LockAgain == LockWith(MaxHeldLocks)

LockSend == SendWith({FALSE}, MaxLockSends)

Sequence ==
  \E is_async \in BOOLEAN :
    /\ is_async => Len(sequences) < MaxSequences
    /\ Step(sequence(Engine, is_async),
            IF is_async THEN "sequence" ELSE "sequence:ERROR_SEQUENCE_NOT_ASYNC")

\* callbacks are called in the order of their sequence() calls
SequenceStart ==
  \E i \in DOMAIN sequences :
    /\ sequences[i] = "granted"
    /\ \A j \in 1..(i - 1) : sequences[j] # "granted"
    /\ Step(sequence_then(Engine, i), "sequence:then")

SequenceSettle ==
  \E i \in DOMAIN sequences, outcome \in {"resolve", "reject"} :
    /\ sequences[i] = "running"
    /\ Step(sequence_finally(Engine, i, outcome), "sequence:finally:" \o outcome)

NextLock ==
  \/ LockSend
  \/ ReplyByte
  \/ WatchdogFire
  \/ Clear
  \/ LockAgain
  \/ Unlock
  \/ Sequence
  \/ SequenceStart
  \/ SequenceSettle

SpecLock == InitQueue /\ [][NextLock]_vars

\* as SpecLock, with locks taken through sequence() only
NextSequence ==
  \/ LockSend
  \/ ReplyByte
  \/ WatchdogFire
  \/ Clear
  \/ Unlock
  \/ Sequence
  \/ SequenceStart
  \/ SequenceSettle

SpecSequence == InitQueue /\ [][NextSequence]_vars

\* ------------------------------------------------------------- claims
Calls(id) == Cardinality({i \in DOMAIN completions : completions[i] = id})

InTrain(id) == \E i \in DOMAIN train : train[i].id = id

\* position of the first call of a sink of id in completions (0: none)
FirstCall(id) ==
  IF Calls(id) = 0 THEN 0
  ELSE CHOOSE i \in DOMAIN completions :
         /\ completions[i] = id
         /\ \A j \in 1..(i - 1) : completions[j] # id

InFlight == {i \in DOMAIN train : train[i].writes > 0}

\* C1: the sinks of every exchange created by send are called at most once
\* in all: one resolve or one reject, never both and never twice.
C1_SinkCalledAtMostOnce == \A id \in 1..sent : Calls(id) <= 1

\* C2: every exchange enqueued by send eventually completes when every armed
\* timer eventually fires.  Stated for the exchanges that wait in the queue
\* of an Idle engine, which no reply byte of the device concerns.
C2_QueuedEventuallyCompletes ==
  \A id \in 1..MaxQueueSends : [](InTrain(id) /\ state = IDLE => <>~InTrain(id))

\* C3: a send with prepend=true issued while an exchange is in flight does
\* not displace it: the head of the queue, which receives the device's
\* reply, is the same exchange after the send.
C3_PrependKeepsInFlightHead ==
  [][(state # IDLE /\ train # <<>> /\ last' = "send:prepend")
       => (train' # <<>> /\ Head(train').id = Head(train).id)]_vars

\* C4: with no prepend send, exchanges complete in the order in which they
\* were enqueued (ids are given in enqueue order).
C4_FifoCompletion ==
  \A a, b \in 1..sent :
    (a < b /\ Calls(b) > 0) => (Calls(a) > 0 /\ FirstCall(a) < FirstCall(b))

\* C5: at most one exchange is in flight: no payload is written while an
\* exchange written earlier is still queued, and none is written twice.
C5_AtMostOneInFlight ==
  /\ Cardinality(InFlight) <= 1
  /\ \A i \in DOMAIN train : train[i].writes <= 1

\* C6: after any call to close() the queue is empty, no locks are held, no
\* timer is armed and the transport is not open (send rejects).
C6_CloseResets ==
  last = "close" =>
    /\ train = <<>>
    /\ lock = 0
    /\ ~watchdog
    /\ ~reconnect
    /\ ~isOpen(Engine)

\* deliveries of two bytes whose first byte is a terminal status
PackedTerminal ==
  {d \in Deliveries :
     /\ Len(d) = 2
     /\ d[1] \notin {RESPONSE_OUTPUT, RESPONSE_WAIT_USER_CONFIRM, RESPONSE_LOCKED}}

\* C7: a delivery whose first byte is a terminal status followed by more
\* bytes produces the same completions as the first byte and the remainder
\* delivered separately.
C7_RefeedAsSeparateDeliveries ==
  (state = SENDING /\ train # <<>>) =>
    \A d \in PackedTerminal :
      serial_data(Engine, d, 0).settled
        = serial_data(serial_data(Engine, <<d[1]>>, 0), Tail(d), 0).settled

\* C8: if the state is Sending or Reading then the queue is non-empty.
C8_BusyImpliesQueued == state \in {SENDING, READING} => train # <<>>

\* C9: if the state is Idle then the watchdog is disarmed.
C9_IdleImpliesNoWatchdog == state = IDLE => ~watchdog

\* C10: if the watchdog is disarmed and the queue holds no dispatched
\* exchange then the state is Idle.
C10_QuietImpliesIdle == (~watchdog /\ InFlight = {}) => state = IDLE

\* ------------------------------------------------ locks and sequences
\* the promise that the lock() of this step returned is resolved
LockGranted ==
  \E i \in DOMAIN settled : settled[i].of = "lock" /\ settled[i].kind = "resolve"

\* C11: locks are granted first come first served, one holder at a time: a
\* lock() on an unlocked engine completes at once, a lock() while a lock is
\* held does not complete before the holder calls unlock().
C11_LockGrantedOnlyWhenFree ==
  [][last' = "lock" =>
       /\ ~locked(Engine) => LockGranted'
       /\ locked(Engine) => ~LockGranted']_vars

Running == {i \in DOMAIN sequences : sequences[i] = "running"}

Unsettled == {i \in DOMAIN sequences : sequences[i] # "settled"}

\* C12: two sequence() calls are serialized: while the callback of one is
\* running, unsettled, the callback of no other sequence() has started.
C12_OneSequenceRunning == Cardinality(Running) <= 1

\* C13: the lock a sequence() took is released when its callback's promise
\* settles, by resolve or by reject: no more locks are held than sequences
\* are unsettled, and none once every sequence has settled.
C13_SequenceReleasesLock ==
  /\ lock <= Cardinality(Unsettled)
  /\ Unsettled = {} => ~locked(Engine)

C13_Witness ==
  /\ Len(sequences) = MaxSequences
  /\ Unsettled = {}
  /\ last = "sequence:finally:reject"

\* C20: sequence() with a callable that is not async rejects with
\* ERROR_SEQUENCE_NOT_ASYNC, takes no lock and does not call the callable:
\* lock list, queue and state are as before.
C20_NotAsyncRejected ==
  [][last' = "sequence:ERROR_SEQUENCE_NOT_ASYNC" =>
       /\ settled' = <<[of |-> "sequence", id |-> 0, kind |-> "reject", status |-> -1,
                        data |-> <<>>, error |-> "ERROR_SEQUENCE_NOT_ASYNC"]>>
       /\ written' = <<>>
       /\ UNCHANGED <<lock, sequences, train, state, watchdog, completions>>]_vars

C20_Witness ==
  /\ last = "sequence:ERROR_SEQUENCE_NOT_ASYNC"
  /\ locked(Engine)
  /\ train # <<>>

\* ------------------------------------------- faults and reconnection
\* C14: whenever the transport emits 'close' and the user has not called
\* close(), the reconnect timer is armed: after the first loss and after
\* every loss that follows a successful reconnect.
C14_ReconnectArmedAfterLoss == last = "on_close" => reconnect

\* the exchanges queued and not yet written to the transport
Undispatched == {train[i].id : i \in {j \in DOMAIN train : train[j].writes = 0}}

\* C15: a transport fault and the automatic reconnect fail no exchange that
\* is queued and not yet dispatched: it stays queued, to be dispatched when
\* the transport has reopened.
C15_FaultKeepsQueued ==
  [][last' \in {"link_lost", "on_close", "on_error", "reconnect", "on_open"} =>
       \A id \in Undispatched : InTrain(id)']_vars

\* ------------------------------------------------------ device replies
\* the exchange was resolved in this step with status and data
ResolvedWith(status, data) ==
  settled = <<[of |-> "send", id |-> 1, kind |-> "resolve", status |-> status,
               data |-> data, error |-> ""]>>

\* C16: an exchange in flight that receives OUTPUT_BEGIN, the payload with
\* ESCAPE before every byte equal to ESCAPE or OUTPUT_END, then OUTPUT_END,
\* resolves with exactly the payload.
C16_FrameDecodesToPayload ==
  (/\ codec.frame = WireFrame(codec.payload)
   /\ codec.pos = Len(codec.frame)) =>
    ResolvedWith(RESPONSE_OK, codec.payload)

\* the same for a device that numbers the framing bytes as Status does
StatusFrameDecodesToPayload ==
  (/\ codec.frame = StatusFrame(codec.payload)
   /\ codec.pos = Len(codec.frame)) =>
    ResolvedWith(RESPONSE_OK, codec.payload)

\* C17: the parser recognises the wire values: as the first byte of a reply,
\* 1, 2 and 3 resolve the head with that status, 4 moves Sending to Reading,
\* 10 emits wait_user_confirm and 11 emits locked.
C17_WireValuesRecognised ==
  (codec.pos = 1 /\ last = "serial_data") =>
    LET b == codec.frame[1]
    IN  /\ b \in {WIRE_OK, WIRE_SEND_INPUT, WIRE_REJECTED} => ResolvedWith(b, <<>>)
        /\ b = WIRE_OUTPUT_BEGIN => state = READING
        /\ b = WIRE_WAIT_USER_CONFIRM => emitted = <<"wait_user_confirm">>
        /\ b = WIRE_LOCKED => emitted = <<"locked">>

\* ------------------------------------------------------ send and clear
\* C18: send while the transport is absent or not open rejects with
\* ERROR_DISCONNECTED and changes nothing: queue, state, locks and timers are
\* as before, nothing is written, no exchange is created or completed.
C18_SendDisconnectedNoEffect ==
  [][last' = "send:ERROR_DISCONNECTED" =>
       /\ settled' = <<[of |-> "send", id |-> 0, kind |-> "reject", status |-> -1,
                        data |-> <<>>, error |-> "ERROR_DISCONNECTED"]>>
       /\ written' = <<>>
       /\ emitted' = <<>>
       /\ UNCHANGED <<train, state, lock, watchdog, reconnect, completions, sent,
                      serial, closing>>]_vars

C18_Witness ==
  /\ last = "send:ERROR_DISCONNECTED"
  /\ train # <<>>
  /\ watchdog

\* C19: from any state, locks held or not, clear() disarms the watchdog,
\* fails every pending exchange with ERROR_CLEARED, empties the queue, sets
\* the state to Idle and releases every lock: locked() is false afterwards.
C19_ClearReleasesAll ==
  [][last' = "clear" =>
       /\ ~watchdog'
       /\ train' = <<>>
       /\ state' = IDLE
       /\ ~locked(Engine)'
       /\ \A i \in DOMAIN train :
            \E j \in DOMAIN settled' :
              /\ settled'[j].id = train[i].id
              /\ settled'[j].error = "ERROR_CLEARED"]_vars

\* ------------------------------------------------------ the data sent
\* C21: what send writes is the bytes of its data: the one byte b for an
\* integer b in 0..255, and for an array of integers the bytes of the array,
\* as many as the array has.
C21_WritesBytesOfData ==
  \A i \in DOMAIN written : written[i].bytes = Bytes(input)

\* ------------------------------------------------------ status replies
\* the step is the delivery of data to an engine in state SENDING with a
\* head to answer
Answers(data) ==
  /\ last' = "serial_data"
  /\ codec'.frame = data
  /\ state = SENDING
  /\ train # <<>>

\* among the sink calls s the first of entry id has this outcome
FirstOutcome(s, id, kind, status, error) ==
  \E j \in DOMAIN s :
    /\ s[j].id = id /\ s[j].kind = kind
    /\ s[j].status = status /\ s[j].error = error
    /\ \A i \in 1..(j - 1) : s[i].id # id

LockedBytes == {WIRE_LOCKED, RESPONSE_LOCKED}

\* C22: with reject_on_locked false, LOCKED as the first reply byte emits
\* locked and neither completes nor fails the head, which stays in flight;
\* the rest of the delivery is parsed as status bytes for the same head.
C22_LockedKeepsHeadInFlight ==
  [][\A b \in LockedBytes :
       /\ (Answers(<<b>>) /\ ~reject_on_locked) =>
            /\ emitted' = <<"locked">>
            /\ settled' = <<>>
            /\ train' = train
            /\ state' = SENDING
       /\ (Answers(<<b, RESPONSE_OK>>) /\ ~reject_on_locked) =>
            /\ "locked" \in {emitted'[i] : i \in DOMAIN emitted'}
            /\ FirstOutcome(settled', train[1].id, "resolve", RESPONSE_OK, "")]_vars

\* the step fails every queued exchange with ERROR_LOCKED, emits locked and
\* leaves the queue empty and the state Idle
RejectsAllLocked ==
  /\ \A i \in DOMAIN train : FirstOutcome(settled', train[i].id, "reject", -1, "ERROR_LOCKED")
  /\ Len(settled') = Len(train)
  /\ emitted' = <<"locked">>
  /\ train' = <<>>
  /\ state' = IDLE

\* C23: with reject_on_locked set, LOCKED as the first reply byte fails every
\* queued exchange, the one in flight and the pending ones, with
\* ERROR_LOCKED, emits locked and leaves the queue empty and the state Idle.
C23_LockedRejectsAll ==
  [][\A b \in LockedBytes :
       (Answers(<<b>>) /\ reject_on_locked) => RejectsAllLocked]_vars

\* the same for the byte that is LOCKED in Status only
StatusLockedRejectsAll ==
  [][(Answers(<<RESPONSE_LOCKED>>) /\ reject_on_locked) => RejectsAllLocked]_vars

\* ------------------------------------------------------ transport errors
\* the id of the exchange in flight
InFlightIds == {train[i].id : i \in InFlight}

\* C24: when the transport emits 'error' while an exchange is in flight, the
\* exchange is failed, the engine emits error and returns to Idle, and the
\* next queued exchange is dispatched.
C24_ErrorFailsInFlight ==
  [][(last' = "on_error" /\ InFlightIds # {}) =>
       /\ \A id \in InFlightIds :
            \E j \in DOMAIN settled' : settled'[j].id = id /\ settled'[j].kind = "reject"
       /\ "error" \in {emitted'[i] : i \in DOMAIN emitted'}
       /\ \A id \in InFlightIds : ~InTrain(id)'
       /\ IF train' = <<>> THEN state' = IDLE ELSE train'[1].writes > 0]_vars

\* the step completes the head and the write of the next head throws
NextWriteThrows ==
  /\ last' \in {"serial_data", "serial_watchdog"}
  /\ Len(train) >= 2
  /\ Len(settled') >= 2
  /\ settled'[1].id = train[1].id
  /\ settled'[2].error = "ERROR_WRITE"

\* C25: when the write of the head throws at dispatch, the exchange failed
\* with the error is that head and no other; the rest of the queue keeps its
\* order and the engine goes on to dispatch the next exchange.
C25_WriteThrowFailsHead ==
  [][NextWriteThrows =>
       /\ settled'[2].id = train[2].id
       /\ train' = SubSeq(train, 3, Len(train))
       /\ train' # <<>> => train'[1].writes > 0]_vars

\* ------------------------------------------------------ advancing
\* the step is a delivery that completes or fails the head
DeliveryEndsHead ==
  /\ last' = "serial_data"
  /\ train # <<>>
  /\ \E j \in DOMAIN settled' : settled'[j].id = train[1].id

\* C26: at the end of a delivery that completed or failed the head, an
\* error code followed by more bytes included, with the transport open and
\* the queue not empty the new head has been written and the state is not
\* Idle.
C26_AdvanceAfterCompletion ==
  [][(DeliveryEndsHead /\ isOpen(Engine)' /\ train' # <<>>) =>
       /\ train'[1].writes > 0
       /\ state' # IDLE]_vars

\* the step is a watchdog fire with the transport not open and an exchange
\* queued behind the head: serial_watchdog fails the head and calls next(),
\* which finds the state Idle, the queue not empty and the transport closed
AdvanceFindsClosed ==
  /\ last' = "serial_watchdog"
  /\ ~isOpen(Engine)
  /\ Len(train) >= 2

\* C27: when next() finds the state Idle, the queue not empty and the
\* transport closed, the head is failed with ERROR_DISCONNECTED (the error
\* its caller observes), the queue is emptied and the state stays Idle.
C27_ClosedFailsHeadDisconnected ==
  [][AdvanceFindsClosed =>
       /\ FirstOutcome(settled', train[2].id, "reject", -1, "ERROR_DISCONNECTED")
       /\ train' = <<>>
       /\ state' = IDLE]_vars

\* ------------------------------------------------------ watchdog
\* C28: when the watchdog fires while an exchange is in flight, that
\* exchange is failed with ERROR_WATCHDOG and the state becomes Idle; the
\* next queued exchange is dispatched with a freshly armed watchdog.
C28_WatchdogFailsInFlight ==
  [][(last' = "serial_watchdog" /\ InFlightIds # {}) =>
       /\ \A id \in InFlightIds :
            /\ FirstOutcome(settled', id, "reject", -1, "ERROR_WATCHDOG")
            /\ ~InTrain(id)'
       /\ IF train' = <<>> THEN state' = IDLE /\ ~watchdog'
          ELSE state' = SENDING /\ watchdog' /\ train'[1].writes = 1]_vars

\* ------------------------------------------------------ user confirmation
\* the step leaves the head waiting in flight with the watchdog disarmed
\* and emits wait_user_confirm
WaitsForUser ==
  /\ emitted' = <<"wait_user_confirm">>
  /\ settled' = <<>>
  /\ train' = train
  /\ state' = SENDING
  /\ ~watchdog'

\* C29: WAIT_USER_CONFIRM as the first reply byte emits wait_user_confirm,
\* keeps the head in flight in state Sending and disarms the watchdog until
\* the next inbound byte; an OK byte after it resolves the same head with OK.
C29_WaitUserConfirmThenOk ==
  [][/\ \A b \in {WIRE_WAIT_USER_CONFIRM, RESPONSE_WAIT_USER_CONFIRM} :
          Answers(<<b>>) => WaitsForUser
     /\ \A b \in {WIRE_OK, RESPONSE_OK} :
          (Answers(<<b>>) /\ ~watchdog) =>
            FirstOutcome(settled', train[1].id, "resolve", b, "")]_vars

\* the same for the bytes that are WAIT_USER_CONFIRM and OK in Status only
StatusWaitUserConfirmThenOk ==
  [][/\ Answers(<<RESPONSE_WAIT_USER_CONFIRM>>) => WaitsForUser
     /\ (Answers(<<RESPONSE_OK>>) /\ ~watchdog) =>
          FirstOutcome(settled', train[1].id, "resolve", RESPONSE_OK, "")]_vars

\* ------------------------------------------------------ loss in flight
\* the entries of the queue that the step writes again
Rewritten ==
  {j \in DOMAIN train :
     /\ train[j].writes > 0
     /\ \E i \in DOMAIN written' : written'[i].id = train[j].id}

\* C30: when the transport closes, not on the user's close(), while an
\* exchange is in flight, the engine emits failed and fails that exchange;
\* the exchange is not written again when the transport has reopened.
C30_LossFailsInFlight ==
  [][/\ (last' = "on_close" /\ InFlightIds # {}) =>
          /\ "failed" \in {emitted'[i] : i \in DOMAIN emitted'}
          /\ \A id \in InFlightIds :
               /\ \E j \in DOMAIN settled' :
                    settled'[j].id = id /\ settled'[j].kind = "reject"
               /\ ~InTrain(id)'
     /\ last' = "on_open" => Rewritten = {}]_vars

\* ------------------------------------------------------ error replies
\* the ids of the entries of a queue, in order
Ids(t) == [i \in DOMAIN t |-> t[i].id]

\* the step fails the head with error, fails or completes no other exchange
\* and removes the head and no other entry from the queue
FailsHeadOnly(error) ==
  /\ settled' = <<[of |-> "send", id |-> train[1].id, kind |-> "reject",
                   status |-> -1, data |-> <<>>, error |-> error]>>
  /\ Ids(train') = Ids(Tail(train))

\* the step is the delivery of the one byte b to an engine in state SENDING
\* with a head to answer, and no write of the step throws
AnswersAlone(b) ==
  /\ Answers(<<b>>)
  /\ \A j \in DOMAIN settled' : settled'[j].error # "ERROR_WRITE"

\* C31: in state Sending a first reply byte in 246..255 fails the head with
\* the error named for that byte, and a byte outside the status vocabulary
\* and the error table fails the head with ERROR_UNKNOWN_RESPONSE; in both
\* cases the head and no other entry leaves the queue.
C31_ErrorByteFailsHead ==
  [][\A b \in 0..255 :
       /\ (AnswersAlone(b) /\ b \in ErrorCodes) => FailsHeadOnly(response_errors(b))
       /\ (AnswersAlone(b) /\ b \notin ErrorCodes \cup WireStatus) =>
            FailsHeadOnly("ERROR_UNKNOWN_RESPONSE")]_vars

\* the same with the status vocabulary numbered as Status numbers it
StatusErrorByteFailsHead ==
  [][\A b \in 0..255 :
       /\ (AnswersAlone(b) /\ b \in ErrorCodes) => FailsHeadOnly(response_errors(b))
       /\ (AnswersAlone(b) /\ b \notin ErrorCodes \cup 0..7) =>
            FailsHeadOnly("ERROR_UNKNOWN_RESPONSE")]_vars

\* ------------------------------------------------------ split deliveries
\* the device's frame has been delivered to its last byte
FrameDelivered == Len(codec.frame) > 1 /\ codec.pos = Len(codec.frame)

\* no queued exchange carries an escape flag or buffered output
AllFresh ==
  \A i \in DOMAIN train :
    ~train[i].is_prev_escaped_byte /\ train[i].output_buffer = <<>>

\* C32: however the stream OUTPUT_BEGIN, escaped payload, OUTPUT_END is
\* split into deliveries, a split right after an ESCAPE byte included, the
\* exchange in flight resolves with the payload when the last byte has
\* arrived, and the exchange behind it starts with no flag and an empty
\* buffer.
C32_SplitsDecodeAlike ==
  FrameDelivered => (ResolvedWith(RESPONSE_OK, codec.payload) /\ AllFresh)

\* the same for a device that numbers the framing bytes as Status does
StatusSplitsDecodeAlike ==
  (FrameDelivered /\ codec.frame = StatusFrame(codec.payload)) =>
    (ResolvedWith(RESPONSE_OK, codec.payload) /\ AllFresh)

\* ------------------------------------------------------ end of output
\* the step is a delivery to an engine in state READING whose first byte is
\* end, not escaped, and no write of the step throws
EndsOutput(end) ==
  /\ last' = "serial_data"
  /\ state = READING
  /\ train # <<>>
  /\ ~train[1].is_prev_escaped_byte
  /\ codec'.frame[1] = end
  /\ \A j \in DOMAIN settled' : settled'[j].error # "ERROR_WRITE"

\* the step completes the head with its buffer and nothing else: the rest
\* of the queue is as it was but for the dispatch of the new head
CompletesOutputOnly ==
  /\ settled' = <<[of |-> "send", id |-> train[1].id, kind |-> "resolve",
                   status |-> RESPONSE_OK, data |-> train[1].output_buffer,
                   error |-> ""]>>
  /\ Ids(train') = Ids(Tail(train))
  /\ AllFresh'
  /\ emitted' = <<>>
  /\ IF train' = <<>> THEN state' = IDLE
     ELSE state' = SENDING /\ train'[1].writes = 1

\* C33: in state Reading an unescaped OUTPUT_END completes the head with
\* the accumulated buffer and moves to Idle, from where the next exchange is
\* dispatched; the bytes that follow it in the same delivery complete, fail
\* and modify no exchange, the one dispatched next included.
C33_OutputEndDiscardsRest ==
  [][\A end \in {WIRE_OUTPUT_END, RESPONSE_OUTPUT_END} :
       EndsOutput(end) => CompletesOutputOnly]_vars

\* the same for the byte that is OUTPUT_END in Status only
StatusOutputEndDiscardsRest ==
  [][EndsOutput(RESPONSE_OUTPUT_END) => CompletesOutputOnly]_vars

\* ------------------------------------------------------ timers
\* C34: the watchdog timer and the reconnect timer are single-instance: at
\* most one watchdog timeout and at most one reconnect interval are
\* registered at any time, every arming having cancelled the registration
\* before it.
C34_TimersSingleInstance ==
  /\ timers.timeouts <= 1
  /\ timers.intervals <= 1

C34_Witness ==
  /\ last = "serial_data"
  /\ state = READING
  /\ timers = [timeouts |-> 1, intervals |-> 1]

\* ------------------------------------------------------ open and close
\* C35: open() called while the transport is open is idempotent: no
\* transport is created or closed, and the queue, the state, the locks, the
\* timers and the closing flag are as before.
C35_OpenWhenOpenNoEffect ==
  [][(last' = "open" /\ isOpen(Engine)) =>
       /\ UNCHANGED <<serial, close_events, error_events, train, state, lock,
                      watchdog, reconnect, timers, closing, completions>>
       /\ settled' = <<>>
       /\ written' = <<>>]_vars

\* C36: whenever the current transport is open the reconnect timer is not
\* armed: the 'open' event cancels it and no later event of a transport
\* discarded before, such as the 'close' of a transport closed by a close()
\* that an open() followed at once, arms it again.
C36_OpenImpliesNoReconnect == isOpen(Engine) => ~reconnect

\* C37: closing is true only between a close() of the user and the next
\* open(): whenever the engine holds a transport created by open(), one
\* created by the reconnect interval's open() included, closing is false.
C37_TransportImpliesNotClosing == serial # "undefined" => ~closing

\* ------------------------------------------------------ replies and writes
\* C38: an exchange is completed with a device reply, a status byte or an
\* output payload, only after its own payload was written to the transport:
\* inbound bytes resolve no exchange that waits in the queue undispatched.
C38_ResolvedOnlyAfterWrite ==
  [][last' = "serial_data" =>
       \A j \in DOMAIN settled' :
         settled'[j].kind = "resolve" =>
           \/ \E i \in DOMAIN train :
                train[i].id = settled'[j].id /\ train[i].writes > 0
           \/ \E i \in DOMAIN written' : written'[i].id = settled'[j].id]_vars

\* ------------------------------------------------------ locks
\* the entry points that no caller calls: deliveries, timer fires and
\* transport events
InternalEntries ==
  {"serial_data", "serial_watchdog", "on_error", "on_close", "link_lost",
   "reconnect", "on_open"}

C40_IdleBytesDiscarded ==
  [][(last' = "serial_data" /\ state = IDLE) =>
       /\ UNCHANGED <<state, train, lock, watchdog, reconnect, timers,
                      completions, serial, closing>>
       /\ settled' = <<>>
       /\ written' = <<>>
       /\ emitted' = <<>>]_vars

\* a delivery has found the state Idle with an exchange in the queue
C40_Witness ==
  /\ last = "serial_data"
  /\ state = IDLE
  /\ train # <<>>
  /\ settled = <<>>
  /\ emitted = <<>>

====
